---- MODULE Spec2Model ----
(***************************************************************************)
(* Model of the Solidity language server core:                             *)
(*   libsolidity/lsp/LanguageServer.cpp  (run loop, handlers, publishing)  *)
(*   solc/LSPTCPTransport.cpp            (TCP transport, accept/reconnect) *)
(* Texts are sequences of one-character strings, offsets are 0-based as in *)
(* the C++ code.                                                           *)
(***************************************************************************)
EXTENDS Integers, Sequences, FiniteSets, TLC

VARIABLES
    pc,                  \* position of run(): "loop", "dispatch", "returned"
    jsonMessage,         \* the message last returned by receive(), NoMsg for nullopt
    m_exitRequested,
    m_shutdownRequested,
    m_settingsObject,
    sourceCodes,         \* m_fileReader.sourceCodes(): source unit name -> text
    m_errors,            \* m_compilerStack.errors(): source names of the error locations
    m_acceptorOpen,      \* m_acceptor.is_open()
    m_stream,            \* "none" (empty optional), "good", "closed" (!good() or eof())
    m_jsonTransport,     \* m_jsonTransport.has_value()
    sent,                \* what was handed to the framer since the last receive(), in order
    written,             \* what the framer put on the connection since the last receive()
    accepted,            \* the last receive() called m_acceptor.accept()
    entrySources,        \* sourceCodes when the handler of jsonMessage was entered
    exceptionLogged,     \* run()'s catch block was taken for jsonMessage
    runResult            \* value returned by run()

vars == << pc, jsonMessage, m_exitRequested, m_shutdownRequested, m_settingsObject,
           sourceCodes, m_errors, m_acceptorOpen, m_stream, m_jsonTransport, sent,
           written, accepted, entrySources, exceptionLogged, runResult >>

----------------------------------------------------------------------------
(* Bounds of the model *)

\* ids of messages are 1..MaxId; NoId is the JSON null of a notification
MaxId == 1
\* longest document text the edit specification starts from
MaxLen == 3
\* largest line number a range position names
MaxLine == 1
\* largest column a range position names
MaxCol == 2

NoId == 0
Ids == 0..MaxId

NL == "\n"
NoPos == -1

\* size_t arithmetic: static_cast<size_t>(end) - start wraps modulo SizeModulus
\* (a power of two far above every text length of the model)
SizeModulus == 1073741824

----------------------------------------------------------------------------
(* Strings *)

Min(a, b) == IF a < b THEN a ELSE b

\* all texts over the characters cs of length at most n
RECURSIVE TextsUpTo(_, _)
TextsUpTo(cs, n) ==
    IF n = 0 THEN { <<>> }
    ELSE LET shorter == TextsUpTo(cs, n - 1)
         IN  shorter \cup { Append(t, c) : t \in shorter, c \in cs }

\* std::string::find('\n', from): offset of the first line feed at or after from
RECURSIVE FindNL(_, _)
FindNL(text, from) ==
    IF from >= Len(text) THEN NoPos
    ELSE IF text[from + 1] = NL THEN from
    ELSE FindNL(text, from + 1)

\* offset at which line `line` starts: one find per preceding line
RECURSIVE LineOffset(_, _)
LineOffset(text, line) ==
    IF line = 0 THEN 0
    ELSE LET prev == LineOffset(text, line - 1)
         IN  IF prev = NoPos THEN NoPos
             ELSE LET lf == FindNL(text, prev)
                  IN  IF lf = NoPos THEN NoPos ELSE lf + 1

\* CharStream::translateLineColumnToPosition: nullopt (NoPos) when the line is past
\* the last line or the column past the end of the line
translateLineColumnToPosition(text, line, column) ==
    IF line < 0 THEN NoPos
    ELSE LET offset == LineOffset(text, line)
         IN  IF offset = NoPos THEN NoPos
             ELSE LET lf == FindNL(text, offset)
                      endOfLine == IF lf = NoPos THEN Len(text) ELSE lf
                  IN  IF offset + column > endOfLine THEN NoPos
                      ELSE offset + column

\* the count with the "+1" the TODO of the source wonders about
RangeCountPlusOne(start, end) == (end - start + 1) % SizeModulus

\* static_cast<size_t>(endOpt.value()) - start
RangeCount(start, end) == (end - start) % SizeModulus

\* std::string::replace(start, count, text): count is clamped to the rest of the buffer
StringReplace(buffer, start, count, text) ==
    LET n == Min(count, Len(buffer) - start)
    IN  SubSeq(buffer, 1, start) \o text \o SubSeq(buffer, start + n + 1, Len(buffer))

----------------------------------------------------------------------------
(* Paths and source unit names *)

\* a client path is an optional "file://" prefix and the path after it
FileScheme == "file://"
NoPath == [scheme |-> "", path |-> ""]
ClientPath(scheme, path) == [scheme |-> scheme, path |-> path]

\* the source unit names the model uses, in the order of the std::map's keys
NameOrder == << "/A.sol", "/B.sol" >>
Names == { NameOrder[i] : i \in 1..Len(NameOrder) }
ClientPaths == { ClientPath(s, n) : s \in { "", FileScheme }, n \in Names }

\* strips a leading "file://", the rest is the source unit name
clientPathToSourceUnitName(path) == path.path

\* "file://" + (basePath / sourceUnitName)
sourceUnitNameToClientPath(sourceUnitName) == ClientPath(FileScheme, sourceUnitName)

clientPathSourceKnown(codes, path) == clientPathToSourceUnitName(path) \in DOMAIN codes

\* FileReader::setSourceDirectly
setSourceDirectly(codes, name, text) ==
    [ n \in (DOMAIN codes) \cup { name } |-> IF n = name THEN text ELSE codes[n] ]

EmptySources == [ n \in {} |-> <<>> ]

----------------------------------------------------------------------------
(* Messages *)

DefaultParams ==
    [ bad |-> FALSE, rootUri |-> "", options |-> "", settings |-> "",
      hasDoc |-> FALSE, uri |-> NoPath, text |-> <<>>, changes |-> <<>> ]

Message(method, id, params) == [ method |-> method, id |-> id, params |-> params ]

NoMsg == Message("", NoId, DefaultParams)

\* the keys of m_handlers
HandledMethods ==
    { "$/cancelRequest", "cancelRequest", "exit", "initialize", "initialized",
      "shutdown", "textDocument/didChange", "textDocument/didClose",
      "textDocument/didOpen", "workspace/didChangeConfiguration" }

\* a method name that is no key of m_handlers
UnknownMethod == "foo/bar"

\* a content change: not a JSON object; text only; text and range; or an object
\* whose text or positions have a type asString()/asInt() rejects
Change(kind, text, sl, sc, el, ec) ==
    [ kind |-> kind, text |-> text, startLine |-> sl, startColumn |-> sc,
      endLine |-> el, endColumn |-> ec ]
NonObjectChange == Change("nonObject", <<>>, 0, 0, 0, 0)
BadTypeChange   == Change("badType", <<>>, 0, 0, 0, 0)
FullChange(text) == Change("full", text, 0, 0, 0, 0)
RangeChange(sl, sc, el, ec, text) == Change("range", text, sl, sc, el, ec)

\* what an error reply or a notification carries
MethodNotFound == "MethodNotFound"
InternalError == "InternalError"
Outgoing(kind, id, code, method, uri, diagnostics) ==
    [ kind |-> kind, id |-> id, code |-> code, method |-> method, uri |-> uri,
      diagnostics |-> diagnostics ]
ReplyMsg(id, result) == Outgoing("reply", id, "", result, NoPath, <<>>)
ErrorMsg(id, code) == Outgoing("error", id, code, "", NoPath, <<>>)
NotifyMsg(method, uri, diagnostics) == Outgoing("notify", NoId, "", method, uri, diagnostics)

----------------------------------------------------------------------------
(* The compiler *)

\* location of an error that has none, or whose location has no source name
NoSource == "<none>"

\* a source the compiler read from disk: none of the stored documents
ExternalSource == "/lib.sol"

\* m_compilerStack.errors() after a compile of `codes`: each error is
\* represented by the source name of its location; no error, or three of them:
\* one in a stored document, one without location, one in a stored document or
\* in a source read from disk
CompilerOutputs(codes) ==
    { <<>> }
    \cup { << n, NoSource, m >> : n \in DOMAIN codes,
                                  m \in (DOMAIN codes) \cup { ExternalSource } }

\* LanguageServer::compile: true and a fresh error list when the path is known
compileKnown(codes, path) == clientPathSourceKnown(codes, path)

\* diagnostics stored with `=` instead of append: only the last error of a
\* source unit survives
DiagnosticsOfLastOnly(errors, name) ==
    LET all == SelectSeq(errors, LAMBDA e : e # NoSource /\ e = name)
    IN  IF all = <<>> THEN <<>> ELSE << all[Len(all)] >>

\* the diagnostics of compileSourceAndReport for one source unit: the errors
\* whose location names it, in order
DiagnosticsOf(errors, name) ==
    SelectSeq(errors, LAMBDA e : e # NoSource /\ e = name)

\* notifications only for the source units that have diagnostics
PublishOnlyWithDiagnostics(codes, errors) ==
    LET stored == SelectSeq(NameOrder,
                      LAMBDA n : n \in DOMAIN codes /\ DiagnosticsOf(errors, n) # <<>>)
    IN  [ i \in 1..Len(stored) |->
            NotifyMsg("textDocument/publishDiagnostics",
                      sourceUnitNameToClientPath(stored[i]),
                      DiagnosticsOf(errors, stored[i])) ]

\* the notifications of compileSourceAndReport: one per key of sourceCodes()
PublishNotifications(codes, errors) ==
    LET stored == SelectSeq(NameOrder, LAMBDA n : n \in DOMAIN codes)
    IN  [ i \in 1..Len(stored) |->
            NotifyMsg("textDocument/publishDiagnostics",
                      sourceUnitNameToClientPath(stored[i]),
                      DiagnosticsOf(errors, stored[i])) ]

----------------------------------------------------------------------------
(* handleTextDocumentDidChange: the loop over contentChanges *)

\* one iteration for a range change on the stored buffer
applyRangeChange(codes, name, c) ==
    LET buffer == codes[name]
        startOpt == translateLineColumnToPosition(buffer, c.startLine, c.startColumn)
        endOpt == translateLineColumnToPosition(buffer, c.endLine, c.endColumn)
    IN  IF startOpt = NoPos \/ endOpt = NoPos THEN codes
        ELSE setSourceDirectly(codes, name,
                 StringReplace(buffer, startOpt, RangeCount(startOpt, endOpt), c.text))

\* the loop with the buffer read once, before the first change: every change is
\* translated against and applied to the text at entry, the last store wins
RECURSIVE contentChangesLoopStale(_, _, _, _)
contentChangesLoopStale(codes, uri, changes, i) ==
    IF i > Len(changes) THEN [ codes |-> codes, threw |-> FALSE ]
    ELSE LET c == changes[i]
             name == clientPathToSourceUnitName(uri)
             rest == contentChangesLoopStale(codes, uri, changes, i + 1)
         IN  IF c.kind = "nonObject" \/ ~clientPathSourceKnown(codes, uri) THEN rest
             ELSE IF c.kind = "badType" THEN [ codes |-> codes, threw |-> TRUE ]
             ELSE IF rest.threw \/ rest.codes # codes THEN rest
             ELSE IF c.kind = "full"
                  THEN [ codes |-> setSourceDirectly(codes, name, c.text), threw |-> FALSE ]
             ELSE [ codes |-> applyRangeChange(codes, name, c), threw |-> FALSE ]

\* the loop from its i-th change on; threw is TRUE when asString()/asInt() raised
RECURSIVE contentChangesLoop(_, _, _, _)
contentChangesLoop(codes, uri, changes, i) ==
    IF i > Len(changes) THEN [ codes |-> codes, threw |-> FALSE ]
    ELSE LET c == changes[i]
             name == clientPathToSourceUnitName(uri)
         IN  IF c.kind = "nonObject" THEN contentChangesLoop(codes, uri, changes, i + 1)
             ELSE IF ~clientPathSourceKnown(codes, uri)
                  THEN contentChangesLoop(codes, uri, changes, i + 1)
             ELSE IF c.kind = "badType" THEN [ codes |-> codes, threw |-> TRUE ]
             ELSE IF c.kind = "full"
                  THEN contentChangesLoop(setSourceDirectly(codes, name, c.text),
                                          uri, changes, i + 1)
             ELSE contentChangesLoop(applyRangeChange(codes, name, c), uri, changes, i + 1)

\* the store and the exception flag the handler ends with
didChangeOutcome(codes, params) ==
    IF params.bad THEN [ codes |-> codes, threw |-> TRUE ]
    ELSE contentChangesLoop(codes, params.uri, params.changes, 1)

----------------------------------------------------------------------------
(* Inputs of the session specification *)

\* texts a textDocument/didOpen of the session carries
SessionTexts == { << "a", "a" >>, << "a", NL >> }

\* content changes of the session: a full replacement, a replacement of the first
\* character, a position past the last line, and the two malformed shapes
FirstCharChange == RangeChange(0, 0, 0, 1, << "b" >>)
OutOfRangeChange == RangeChange(MaxLine + 1, 0, MaxLine + 1, 0, << "b" >>)
SessionChanges ==
    { FullChange(<< "b" >>), FirstCharChange, OutOfRangeChange, NonObjectChange,
      BadTypeChange }

SessionChangeSeqs ==
    { <<>> } \cup { << c >> : c \in SessionChanges }
    \cup { << FirstCharChange, c >> : c \in { OutOfRangeChange, BadTypeChange } }
    \cup { << OutOfRangeChange, FirstCharChange >> }

SessionPaths == { ClientPath(FileScheme, NameOrder[1]), ClientPath("", NameOrder[1]),
                  ClientPath(FileScheme, NameOrder[2]) }

BadParams == [ DefaultParams EXCEPT !.bad = TRUE ]

SessionParams(method) ==
    CASE method = "initialize" ->
            { DefaultParams, BadParams,
              [ DefaultParams EXCEPT !.rootUri = "/w", !.options = "cfg1" ] }
      [] method = "workspace/didChangeConfiguration" ->
            { DefaultParams, BadParams, [ DefaultParams EXCEPT !.settings = "cfg1" ] }
      [] method = "textDocument/didOpen" ->
            { DefaultParams, BadParams }
            \cup { [ DefaultParams EXCEPT !.hasDoc = TRUE, !.uri = u, !.text = t ] :
                     u \in SessionPaths, t \in SessionTexts }
      [] method = "textDocument/didChange" ->
            { BadParams }
            \cup { [ DefaultParams EXCEPT !.uri = u, !.changes = cs ] :
                     u \in SessionPaths \ { ClientPath("", NameOrder[1]) },
                     cs \in SessionChangeSeqs }
      [] method = "textDocument/didClose" ->
            { [ DefaultParams EXCEPT !.uri = u ] : u \in { ClientPath(FileScheme, NameOrder[1]) } }
      [] OTHER -> { DefaultParams }

\* the ids of the session: the requests of the protocol come with every id and
\* without one, its notifications without one
SessionIds(method) ==
    IF method \in { "initialize", "shutdown", UnknownMethod } THEN Ids ELSE { NoId }

SessionMessages ==
    UNION { { Message(method, id, p) : id \in SessionIds(method), p \in SessionParams(method) } :
            method \in HandledMethods \cup { UnknownMethod } }

----------------------------------------------------------------------------
(* State machine *)

Init ==
    /\ pc = "loop"
    /\ jsonMessage = NoMsg
    /\ m_exitRequested = FALSE
    /\ m_shutdownRequested = FALSE
    /\ m_settingsObject = ""
    /\ sourceCodes = EmptySources
    /\ m_errors = <<>>
    /\ m_acceptorOpen = TRUE
    /\ m_stream = "none"
    /\ m_jsonTransport = FALSE
    /\ sent = <<>>
    /\ written = <<>>
    /\ accepted = FALSE
    /\ entrySources = EmptySources
    /\ exceptionLogged = FALSE
    /\ runResult = FALSE

\* a transport that counts as closed while it has no good client connection
closedWithoutClient == ~m_acceptorOpen \/ m_stream = "closed"

\* LSPTCPTransport::closed
closed == ~m_acceptorOpen

\* the loop condition without the exit flag
RunContinuesIgnoringExit == ~closed

\* the condition of run()'s while loop
RunContinues == ~m_exitRequested /\ ~closed

\* a receive() that takes every connection for closed
clientClosedAlways(stream) == TRUE

\* the lambda clientClosed of LSPTCPTransport::receive
clientClosed(stream) == stream = "none" \/ stream = "closed"

\* receive(): the accept branch is taken and the new connection is already closed
receiveAcceptClosed ==
    /\ clientClosed(m_stream)
    /\ accepted' = TRUE
    /\ m_stream' = "closed"
    /\ UNCHANGED m_jsonTransport

\* receive(): the framer of the current or of the just accepted connection has been
\* asked and the connection is still good
receiveFromGoodClient ==
    /\ accepted' = clientClosed(m_stream)
    /\ m_stream' = "good"
    /\ m_jsonTransport' = TRUE

\* receive(): the framer yields nothing, the connection is closed: both are reset
receiveTeardown ==
    /\ accepted' = clientClosed(m_stream)
    /\ m_stream' = "none"
    /\ m_jsonTransport' = FALSE

\* what every call of receive() from run() leaves alone
ReceiveFrame ==
    /\ sent' = <<>>
    /\ written' = <<>>
    /\ entrySources' = sourceCodes
    /\ exceptionLogged' = FALSE
    /\ UNCHANGED << m_exitRequested, m_shutdownRequested, m_settingsObject, sourceCodes,
                    m_errors, m_acceptorOpen, runResult >>

\* receive(): accept() hands back a connection that is already closed
ReceiveAcceptClosed ==
    /\ pc = "loop" /\ RunContinues
    /\ receiveAcceptClosed
    /\ jsonMessage' = NoMsg
    /\ pc' = "loop"
    /\ ReceiveFrame

\* receive(): the framer of the (possibly just accepted) connection yields a message
ReceiveMessage(messages) ==
    /\ pc = "loop" /\ RunContinues
    /\ receiveFromGoodClient
    /\ \E m \in messages : jsonMessage' = m
    /\ pc' = "dispatch"
    /\ ReceiveFrame

\* receive(): the framer yields nothing and the connection is still good
ReceiveNothing ==
    /\ pc = "loop" /\ RunContinues
    /\ receiveFromGoodClient
    /\ jsonMessage' = NoMsg
    /\ pc' = "loop"
    /\ ReceiveFrame

\* receive(): the framer yields nothing because the peer is gone
ReceiveDisconnect ==
    /\ pc = "loop" /\ RunContinues
    /\ receiveTeardown
    /\ jsonMessage' = NoMsg
    /\ pc' = "loop"
    /\ ReceiveFrame

\* a run() that reports how its loop ended instead of the shutdown flag
RunResultByExit == m_exitRequested

\* the value of run(): return m_shutdownRequested
RunResult == m_shutdownRequested

\* run(): the loop condition fails
RunReturn ==
    /\ pc = "loop" /\ ~RunContinues
    /\ pc' = "returned"
    /\ runResult' = RunResult
    /\ UNCHANGED << jsonMessage, m_exitRequested, m_shutdownRequested, m_settingsObject,
                    sourceCodes, m_errors, m_acceptorOpen, m_stream, m_jsonTransport,
                    sent, written, accepted, entrySources, exceptionLogged >>

\* the listening socket is closed under the running server
ListenerClose ==
    /\ pc = "loop"
    /\ m_acceptorOpen
    /\ m_acceptorOpen' = FALSE
    /\ UNCHANGED << pc, jsonMessage, m_exitRequested, m_shutdownRequested,
                    m_settingsObject, sourceCodes, m_errors, m_stream, m_jsonTransport,
                    sent, written, accepted, entrySources, exceptionLogged, runResult >>

\* how many of `messages` the framer can put on `stream`: an output stream that
\* is not good() writes nothing, a good one may fail at any of the writes
WrittenCounts(stream, messages) ==
    IF stream = "good" THEN 0..Len(messages) ELSE { 0 }

\* notify/reply/error without the has_value() guard and without regard for the
\* state of the stream: every message is put on the connection
TransportSendUnguarded(messages) ==
    /\ sent' = sent \o messages
    /\ written' = written \o messages
    /\ m_stream' = m_stream

\* LSPTCPTransport::notify/reply/error for the messages of one caller, in order:
\* handed to the framer when there is one; the write that fails leaves the stream
\* failed and the messages from it on are not written
TransportSend(messages) ==
    IF m_jsonTransport
    THEN \E k \in WrittenCounts(m_stream, messages) :
            /\ sent' = sent \o messages
            /\ written' = written \o SubSeq(messages, 1, k)
            /\ m_stream' = IF k < Len(messages) /\ m_stream = "good"
                           THEN "closed" ELSE m_stream
    ELSE UNCHANGED << sent, written, m_stream >>

\* a lookup that refuses every method but `exit` once shutdown was requested
HandlerFoundUntilShutdown(method) ==
    method \in HandledMethods /\ (~m_shutdownRequested \/ method = "exit")

\* valueOrDefault(m_handlers, methodName) finds a handler
HandlerFound(method) == method \in HandledMethods

\* run() without the catch block: the exception leaves the loop
AfterHandlerUncaught(threw) == IF threw THEN "returned" ELSE "loop"

\* run() after the handler: the catch block logs and the loop goes on
AfterHandler(threw) == "loop"

\* no reply at all for a method without handler
UnknownMethodIgnored(id) == <<>>

\* what run() sends when no handler is found
UnknownMethodReply(id) == << ErrorMsg(id, MethodNotFound) >>

\* what every dispatch leaves alone
DispatchFrame ==
    /\ pc = "dispatch"
    /\ UNCHANGED << jsonMessage, entrySources, m_acceptorOpen, m_jsonTransport, accepted,
                    runResult >>

\* {"exit", [this](auto, auto) { m_exitRequested = true; }}
DispatchExit ==
    /\ DispatchFrame
    /\ HandlerFound(jsonMessage.method)
    /\ jsonMessage.method = "exit"
    /\ m_exitRequested' = TRUE
    /\ TransportSend(<<>>)
    /\ UNCHANGED << m_shutdownRequested, m_settingsObject, sourceCodes, m_errors,
                    exceptionLogged >>
    /\ pc' = AfterHandler(exceptionLogged')

\* {"shutdown", [this](auto, auto) { m_shutdownRequested = true; }}
DispatchShutdown ==
    /\ DispatchFrame
    /\ HandlerFound(jsonMessage.method)
    /\ jsonMessage.method = "shutdown"
    /\ m_shutdownRequested' = TRUE
    /\ TransportSend(<<>>)
    /\ UNCHANGED << m_exitRequested, m_settingsObject, sourceCodes, m_errors,
                    exceptionLogged >>
    /\ pc' = AfterHandler(exceptionLogged')

\* the handlers with an empty body
DispatchNoOp ==
    /\ DispatchFrame
    /\ HandlerFound(jsonMessage.method)
    /\ jsonMessage.method \in { "$/cancelRequest", "cancelRequest", "initialized",
                                "textDocument/didClose" }
    /\ TransportSend(<<>>)
    /\ UNCHANGED << m_exitRequested, m_shutdownRequested, m_settingsObject, sourceCodes,
                    m_errors, exceptionLogged >>
    /\ pc' = AfterHandler(exceptionLogged')

\* handleInitialize; a rootUri that is no string makes asString() raise
DispatchInitialize ==
    /\ DispatchFrame
    /\ HandlerFound(jsonMessage.method)
    /\ jsonMessage.method = "initialize"
    /\ IF jsonMessage.params.bad
       THEN /\ exceptionLogged' = TRUE
            /\ TransportSend(<<>>)
            /\ UNCHANGED m_settingsObject
       ELSE /\ exceptionLogged' = FALSE
            /\ m_settingsObject' = IF jsonMessage.params.options # ""
                                   THEN jsonMessage.params.options
                                   ELSE m_settingsObject
            /\ TransportSend(<< ReplyMsg(jsonMessage.id, "initializeResult") >>)
    /\ UNCHANGED << m_exitRequested, m_shutdownRequested, sourceCodes, m_errors >>
    /\ pc' = AfterHandler(exceptionLogged')

\* handleWorkspaceDidChangeConfiguration; params that are no object make operator[] raise
DispatchDidChangeConfiguration ==
    /\ DispatchFrame
    /\ HandlerFound(jsonMessage.method)
    /\ jsonMessage.method = "workspace/didChangeConfiguration"
    /\ IF jsonMessage.params.bad
       THEN exceptionLogged' = TRUE /\ UNCHANGED m_settingsObject
       ELSE /\ exceptionLogged' = FALSE
            /\ m_settingsObject' = IF jsonMessage.params.settings # ""
                                   THEN jsonMessage.params.settings
                                   ELSE m_settingsObject
    /\ TransportSend(<<>>)
    /\ UNCHANGED << m_exitRequested, m_shutdownRequested, sourceCodes, m_errors >>
    /\ pc' = AfterHandler(exceptionLogged')

\* compileSourceAndReport(path) on the store `codes`: compile() leaves the errors
\* of the previous compile when the path is unknown
compileSourceAndReport(codes, path) ==
    \E errors \in (IF compileKnown(codes, path) THEN CompilerOutputs(codes) ELSE { m_errors }) :
        /\ m_errors' = errors
        /\ TransportSend(PublishNotifications(codes, errors))

\* handleTextDocumentDidOpen; a text that is no string makes asString() raise
DispatchDidOpen ==
    /\ DispatchFrame
    /\ HandlerFound(jsonMessage.method)
    /\ jsonMessage.method = "textDocument/didOpen"
    /\ LET p == jsonMessage.params
       IN  IF p.bad
           THEN /\ exceptionLogged' = TRUE
                /\ TransportSend(<<>>)
                /\ UNCHANGED << sourceCodes, m_errors >>
           ELSE IF ~p.hasDoc
           THEN /\ exceptionLogged' = FALSE
                /\ TransportSend(<<>>)
                /\ UNCHANGED << sourceCodes, m_errors >>
           ELSE /\ exceptionLogged' = FALSE
                /\ sourceCodes' = setSourceDirectly(sourceCodes,
                                      clientPathToSourceUnitName(p.uri), p.text)
                /\ compileSourceAndReport(sourceCodes', p.uri)
    /\ UNCHANGED << m_exitRequested, m_shutdownRequested, m_settingsObject >>
    /\ pc' = AfterHandler(exceptionLogged')

\* handleTextDocumentDidChange
DispatchDidChange ==
    /\ DispatchFrame
    /\ HandlerFound(jsonMessage.method)
    /\ jsonMessage.method = "textDocument/didChange"
    /\ LET p == jsonMessage.params
           out == didChangeOutcome(sourceCodes, p)
       IN  /\ sourceCodes' = out.codes
           /\ exceptionLogged' = out.threw
           /\ IF ~out.threw /\ p.changes # <<>>
              THEN compileSourceAndReport(out.codes, p.uri)
              ELSE TransportSend(<<>>) /\ UNCHANGED m_errors
    /\ UNCHANGED << m_exitRequested, m_shutdownRequested, m_settingsObject >>
    /\ pc' = AfterHandler(exceptionLogged')

\* run(): no handler for the method
DispatchUnknown ==
    /\ DispatchFrame
    /\ ~HandlerFound(jsonMessage.method)
    /\ TransportSend(UnknownMethodReply(jsonMessage.id))
    /\ UNCHANGED << m_exitRequested, m_shutdownRequested, m_settingsObject, sourceCodes,
                    m_errors, exceptionLogged >>
    /\ pc' = AfterHandler(exceptionLogged')

Next ==
    \/ ReceiveAcceptClosed
    \/ ReceiveMessage(SessionMessages)
    \/ ReceiveNothing
    \/ ReceiveDisconnect
    \/ RunReturn
    \/ ListenerClose
    \/ DispatchExit
    \/ DispatchShutdown
    \/ DispatchNoOp
    \/ DispatchInitialize
    \/ DispatchDidChangeConfiguration
    \/ DispatchDidOpen
    \/ DispatchDidChange
    \/ DispatchUnknown

Spec == Init /\ [][Next]_vars

----------------------------------------------------------------------------
(* The edit specification: every bounded text of one stored document and every *)
(* bounded textDocument/didChange request for it, taken at the moment run()    *)
(* has received the request over a good connection.                            *)

EditName == NameOrder[1]
EditPath == ClientPath(FileScheme, EditName)
EditTexts == TextsUpTo({ "a", NL }, MaxLen)
NewTexts == { <<>>, << "b" >>, << NL >> }
Positions == (0..MaxLine) \X (0..MaxCol)

EditChanges ==
    { RangeChange(s[1], s[2], e[1], e[2], t) : s \in Positions, e \in Positions, t \in NewTexts }
    \cup { FullChange(t) : t \in NewTexts }
    \cup { NonObjectChange, BadTypeChange }

\* the first change of a two-change request: an edit at the start of the document
EditFirstChanges ==
    { c \in EditChanges : c.kind = "range" /\ c.startLine = 0 /\ c.startColumn = 0
                          /\ c.endLine = 0 }

EditChangeSeqs ==
    { <<>> } \cup { << c >> : c \in EditChanges }
    \cup { << c, d >> : c \in EditFirstChanges, d \in EditChanges }

InitEdit ==
    /\ pc = "dispatch"
    /\ \E cs \in EditChangeSeqs :
          jsonMessage = Message("textDocument/didChange", NoId,
                                [ DefaultParams EXCEPT !.uri = EditPath, !.changes = cs ])
    /\ m_exitRequested = FALSE
    /\ m_shutdownRequested = FALSE
    /\ m_settingsObject = ""
    /\ \E t \in EditTexts : sourceCodes = setSourceDirectly(EmptySources, EditName, t)
    /\ m_errors = <<>>
    /\ m_acceptorOpen = TRUE
    /\ m_stream = "good"
    /\ m_jsonTransport = TRUE
    /\ sent = <<>>
    /\ written = <<>>
    /\ accepted = FALSE
    /\ entrySources = sourceCodes
    /\ exceptionLogged = FALSE
    /\ runResult = FALSE

NextEdit == DispatchDidChange

SpecEdit == InitEdit /\ [][NextEdit]_vars

----------------------------------------------------------------------------
(* The transport specification: LSPTCPTransport on its own, with a caller that *)
(* calls receive(), notify(), reply() and error() in any order and in every    *)
(* state of the connection.                                                    *)

\* most messages handed to the framer between two calls of receive()
MaxCalls == 2

\* what the calls of the transport leave alone
TransportFrame ==
    UNCHANGED << pc, m_exitRequested, m_shutdownRequested, m_settingsObject, sourceCodes,
                 m_errors, m_acceptorOpen, entrySources, exceptionLogged, runResult >>

TcpReceiveAcceptClosed ==
    /\ receiveAcceptClosed
    /\ jsonMessage' = NoMsg
    /\ sent' = <<>> /\ written' = <<>>
    /\ TransportFrame

TcpReceiveMessage ==
    /\ receiveFromGoodClient
    /\ \E id \in Ids : jsonMessage' = Message("initialize", id, DefaultParams)
    /\ sent' = <<>> /\ written' = <<>>
    /\ TransportFrame

TcpReceiveNothing ==
    /\ receiveFromGoodClient
    /\ jsonMessage' = NoMsg
    /\ sent' = <<>> /\ written' = <<>>
    /\ TransportFrame

TcpReceiveDisconnect ==
    /\ receiveTeardown
    /\ jsonMessage' = NoMsg
    /\ sent' = <<>> /\ written' = <<>>
    /\ TransportFrame

\* LSPTCPTransport::notify
CallNotify ==
    /\ Len(sent) < MaxCalls
    /\ TransportSend(<< NotifyMsg("textDocument/publishDiagnostics",
                                  ClientPath(FileScheme, NameOrder[1]), <<>>) >>)
    /\ UNCHANGED << jsonMessage, m_jsonTransport, accepted >>
    /\ TransportFrame

\* LSPTCPTransport::reply
CallReply ==
    /\ Len(sent) < MaxCalls
    /\ \E id \in Ids : TransportSend(<< ReplyMsg(id, "initializeResult") >>)
    /\ UNCHANGED << jsonMessage, m_jsonTransport, accepted >>
    /\ TransportFrame

\* LSPTCPTransport::error
CallError ==
    /\ Len(sent) < MaxCalls
    /\ \E id \in Ids : TransportSend(<< ErrorMsg(id, MethodNotFound) >>)
    /\ UNCHANGED << jsonMessage, m_jsonTransport, accepted >>
    /\ TransportFrame

NextTransport ==
    \/ TcpReceiveAcceptClosed
    \/ TcpReceiveMessage
    \/ TcpReceiveNothing
    \/ TcpReceiveDisconnect
    \/ CallNotify
    \/ CallReply
    \/ CallError

SpecTransport == Init /\ [][NextTransport]_vars

----------------------------------------------------------------------------
(* Vocabulary of the properties *)

\* the handler of jsonMessage has run and run() is back at its loop condition
Dispatched == pc # "dispatch" /\ jsonMessage # NoMsg

DispatchedMethod(method) == Dispatched /\ jsonMessage.method = method

\* half-open replacement of T[s..e) by text, offsets 0-based
Splice(T, s, e, text) == SubSeq(T, 1, s) \o text \o SubSeq(T, e + 1, Len(T))

StartOffset(T, c) == translateLineColumnToPosition(T, c.startLine, c.startColumn)
EndOffset(T, c) == translateLineColumnToPosition(T, c.endLine, c.endColumn)

\* a range change whose positions both translate in T, the end not before the start
ValidRange(T, c) ==
    /\ c.kind = "range"
    /\ StartOffset(T, c) # NoPos /\ EndOffset(T, c) # NoPos
    /\ StartOffset(T, c) <= EndOffset(T, c)

\* a range change one of whose positions does not translate in T
FailsToTranslate(T, c) ==
    c.kind = "range" /\ (StartOffset(T, c) = NoPos \/ EndOffset(T, c) = NoPos)

\* the text one change asks for: the substring replacement, or the new text
Replaced(T, c) ==
    IF c.kind = "full" THEN c.text
    ELSE Splice(T, StartOffset(T, c), EndOffset(T, c), c.text)

\* the name and the entry text of the document jsonMessage is about
DocName == clientPathToSourceUnitName(jsonMessage.params.uri)
EntryText == entrySources[DocName]

----------------------------------------------------------------------------
(* C1: once `exit` has been dispatched, whatever the shutdown flag and the      *)
(* state of the connection, the only step run() takes is its return: nothing is *)
(* received, accepted, dispatched or sent any more.                             *)
C1_ExitEndsRun ==
    [][ m_exitRequested =>
          /\ pc' \in { pc, "returned" }
          /\ jsonMessage' = jsonMessage
          /\ sent' = sent
          /\ m_stream' = m_stream /\ m_jsonTransport' = m_jsonTransport
          /\ sourceCodes' = sourceCodes /\ m_errors' = m_errors
          /\ m_shutdownRequested' = m_shutdownRequested ]_vars

C1_Witness ==
    /\ pc = "returned" /\ m_exitRequested /\ ~closed
    /\ jsonMessage.method = "exit" /\ ~m_shutdownRequested /\ sourceCodes # EmptySources

C3_UnknownRequest ==
    [][ /\ ( pc = "dispatch" /\ jsonMessage.method \notin HandledMethods
             /\ jsonMessage.id # NoId )
           => /\ sent' = << ErrorMsg(jsonMessage.id, MethodNotFound) >>
              /\ sourceCodes' = sourceCodes
              /\ m_exitRequested' = m_exitRequested
              /\ m_shutdownRequested' = m_shutdownRequested
              /\ m_settingsObject' = m_settingsObject
              /\ pc' = "loop"
        /\ ( pc = "dispatch" /\ jsonMessage.method = "initialize"
             /\ ~jsonMessage.params.bad )
           => sent' = << ReplyMsg(jsonMessage.id, "initializeResult") >> ]_vars

C3_Witness ==
    /\ DispatchedMethod(UnknownMethod) /\ jsonMessage.id = 1
    /\ sent = << ErrorMsg(1, MethodNotFound) >>
    /\ pc = "loop" /\ RunContinues /\ sourceCodes # EmptySources

(* C4: a notification (no id) with an unknown method is dropped: nothing is sent *)
(* to the client for it.                                                         *)
C4_UnknownNotificationDropped ==
    ( Dispatched /\ jsonMessage.method \notin HandledMethods /\ jsonMessage.id = NoId )
    => sent = <<>>

(* C5: when the handler of a message with an id raises, the client receives an  *)
(* InternalError reply for that id; when the message is a notification, nothing *)
(* is sent.                                                                     *)
C5_HandlerFaultReported ==
    ( Dispatched /\ exceptionLogged )
    => IF jsonMessage.id # NoId
       THEN sent = << ErrorMsg(jsonMessage.id, InternalError) >>
       ELSE sent = <<>>

(* C6: a `shutdown` request is answered with exactly one empty success reply    *)
(* carrying its id, and marks the session as shutting down.                     *)
C6_ShutdownAnswered ==
    ( DispatchedMethod("shutdown") /\ jsonMessage.id # NoId )
    => /\ m_shutdownRequested
       /\ sent = << ReplyMsg(jsonMessage.id, "null") >>

(* C7: after `shutdown`, a textDocument/didChange or didOpen still has its full *)
(* effect: the store is the one its content asks for and the diagnostics of     *)
(* every stored document are published; and run() does not return after         *)
(* `shutdown` unless `exit` was dispatched (or the transport closed).           *)
C7_ShutdownDoesNotBlock ==
    /\ ( m_shutdownRequested /\ DispatchedMethod("textDocument/didChange")
         /\ ~jsonMessage.params.bad )
       => LET out == didChangeOutcome(entrySources, jsonMessage.params)
          IN  /\ sourceCodes = out.codes
              /\ ( ~out.threw /\ jsonMessage.params.changes # <<>> )
                 => sent = PublishNotifications(sourceCodes, m_errors)
    /\ ( m_shutdownRequested /\ DispatchedMethod("textDocument/didOpen")
         /\ ~jsonMessage.params.bad /\ jsonMessage.params.hasDoc )
       => /\ sourceCodes = setSourceDirectly(entrySources, DocName, jsonMessage.params.text)
          /\ sent = PublishNotifications(sourceCodes, m_errors)
    /\ ( pc = "returned" /\ m_shutdownRequested /\ ~closed ) => m_exitRequested

C7_Witness ==
    /\ m_shutdownRequested /\ ~m_exitRequested /\ pc = "loop"
    /\ DispatchedMethod("textDocument/didChange")
    /\ jsonMessage.params.changes = << FirstCharChange >>
    /\ DocName \in DOMAIN entrySources
    /\ EntryText = << "a", "a" >> /\ sourceCodes[DocName] = << "b", "a" >>
    /\ Len(sent) = Cardinality(DOMAIN sourceCodes)

(* C8: for a request with one range change whose positions translate to offsets *)
(* s <= e in the entry text T, the text afterwards is T[0..s) ++ newText ++      *)
(* T[e..]; with s = e nothing of T is lost, with s = 0 and e = |T| the text is   *)
(* newText; a change without range replaces the whole text by newText.           *)
C8_RangeEdit ==
    ( DispatchedMethod("textDocument/didChange") /\ ~jsonMessage.params.bad
      /\ Len(jsonMessage.params.changes) = 1 /\ DocName \in DOMAIN entrySources )
    => LET c == jsonMessage.params.changes[1]
           T == EntryText
           s == StartOffset(T, c)
           e == EndOffset(T, c)
           after == sourceCodes[DocName]
       IN  /\ ValidRange(T, c) =>
                /\ after = Splice(T, s, e, c.text)
                /\ Len(after) = Len(T) - (e - s) + Len(c.text)
                /\ s = e => ( /\ SubSeq(after, 1, s) = SubSeq(T, 1, s)
                              /\ SubSeq(after, s + Len(c.text) + 1, Len(after))
                                   = SubSeq(T, s + 1, Len(T)) )
                /\ ( s = 0 /\ e = Len(T) ) => after = c.text
           /\ c.kind = "full" => after = c.text

C8_Witness ==
    /\ DispatchedMethod("textDocument/didChange")
    /\ jsonMessage.params.changes = << RangeChange(1, 0, 1, 1, << "b" >>) >>
    /\ EntryText = << "a", NL, "a" >>
    /\ sourceCodes[DocName] = << "a", NL, "b" >>

(* C9: for a request with two changes, each a full replacement or a range valid *)
(* in the text it meets, the final text is the second replacement performed on  *)
(* the result of the first performed on the entry text: the second change's     *)
(* positions are translated against the text the first one produced.            *)
C9_ChangesInOrder ==
    ( DispatchedMethod("textDocument/didChange") /\ ~jsonMessage.params.bad
      /\ Len(jsonMessage.params.changes) = 2 /\ DocName \in DOMAIN entrySources )
    => LET c1 == jsonMessage.params.changes[1]
           c2 == jsonMessage.params.changes[2]
           T0 == EntryText
       IN  ( c1.kind = "full" \/ ValidRange(T0, c1) )
           => LET T1 == Replaced(T0, c1)
              IN  ( c2.kind = "full" \/ ValidRange(T1, c2) )
                  => sourceCodes[DocName] = Replaced(T1, c2)

C9_Witness ==
    /\ DispatchedMethod("textDocument/didChange")
    /\ jsonMessage.params.changes =
          << RangeChange(0, 0, 0, 0, << NL >>), RangeChange(1, 1, 1, 2, << "b" >>) >>
    /\ EntryText = << "a", "a" >>
    /\ sourceCodes[DocName] = << NL, "a", "b" >>

\* the text the i-th change of jsonMessage meets, and whether it is reached
TextBefore(i) ==
    contentChangesLoop(entrySources, jsonMessage.params.uri,
                       SubSeq(jsonMessage.params.changes, 1, i - 1), 1)

\* some change of jsonMessage has a position that does not translate
SomePositionFails ==
    \E i \in 1..Len(jsonMessage.params.changes) :
        /\ ~TextBefore(i).threw
        /\ FailsToTranslate(TextBefore(i).codes[DocName], jsonMessage.params.changes[i])

(* C10: a textDocument/didChange one of whose changes has a position that does  *)
(* not translate leaves the text of the document as it was before the request,  *)
(* whatever its other changes, and an error is sent to the client.              *)
C10_FailedChangeIsAtomic ==
    ( DispatchedMethod("textDocument/didChange") /\ ~jsonMessage.params.bad
      /\ DocName \in DOMAIN entrySources /\ SomePositionFails )
    => /\ sourceCodes = entrySources
       /\ \E k \in 1..Len(sent) : sent[k].kind = "error"

(* C11: a range change whose end position translates to an offset before the   *)
(* offset of its start position leaves the text of the document unchanged.     *)
C11_ReversedRangeIgnored ==
    ( DispatchedMethod("textDocument/didChange") /\ ~jsonMessage.params.bad
      /\ Len(jsonMessage.params.changes) = 1 /\ DocName \in DOMAIN entrySources )
    => LET c == jsonMessage.params.changes[1]
           T == EntryText
       IN  ( c.kind = "range" /\ StartOffset(T, c) # NoPos /\ EndOffset(T, c) # NoPos
             /\ EndOffset(T, c) < StartOffset(T, c) )
           => sourceCodes[DocName] = T

\* the handler of jsonMessage was a textDocument/didOpen that stored its document
StoredByDidOpen ==
    /\ DispatchedMethod("textDocument/didOpen")
    /\ ~jsonMessage.params.bad /\ jsonMessage.params.hasDoc

(* C12: when run() is back at its loop after a message that stored a document  *)
(* (didOpen) or left the text of a stored document changed (didChange), the    *)
(* diagnostics of every stored document have been published for the store as  *)
(* it now is, also when the handler raised after changing the store.           *)
C12_MutationPublished ==
    ( Dispatched /\ ( StoredByDidOpen \/ sourceCodes # entrySources ) )
    => /\ sent = PublishNotifications(sourceCodes, m_errors)
       /\ Len(sent) = Cardinality(DOMAIN sourceCodes)
       /\ m_errors \in CompilerOutputs(sourceCodes)

\* the handler of jsonMessage reached compileSourceAndReport and returned from it
Published ==
    \/ StoredByDidOpen
    \/ /\ DispatchedMethod("textDocument/didChange")
       /\ ~exceptionLogged /\ jsonMessage.params.changes # <<>>

\* the positions in `sent` of the publishDiagnostics notifications for source unit n
NotificationsFor(n) ==
    { i \in 1..Len(sent) :
        /\ sent[i].kind = "notify"
        /\ sent[i].method = "textDocument/publishDiagnostics"
        /\ sent[i].uri = sourceUnitNameToClientPath(n) }

(* C13: a publish sends exactly one publishDiagnostics notification for every   *)
(* stored document and nothing else, and the notification of a document that no *)
(* error of the compiler names carries an empty diagnostics list.               *)
C13_OneNotificationPerDocument ==
    Published
    => /\ \A n \in DOMAIN sourceCodes : Cardinality(NotificationsFor(n)) = 1
       /\ Len(sent) = Cardinality(DOMAIN sourceCodes)
       /\ \A n \in DOMAIN sourceCodes :
             ( \A k \in 1..Len(m_errors) : m_errors[k] # n )
             => \A i \in NotificationsFor(n) : sent[i].diagnostics = <<>>

C13_Witness ==
    /\ Published /\ pc = "loop"
    /\ DOMAIN sourceCodes = Names
    /\ m_errors = << NameOrder[1], NoSource, ExternalSource >>
    /\ Len(sent) = 2
    /\ sent[1].diagnostics # <<>> /\ sent[2].diagnostics = <<>>

RECURSIVE TotalDiagnostics(_)
TotalDiagnostics(messages) ==
    IF messages = <<>> THEN 0
    ELSE Len(Head(messages).diagnostics) + TotalDiagnostics(Tail(messages))

\* the errors of the compiler whose location names a stored document
LocatedErrors == { k \in 1..Len(m_errors) : m_errors[k] \in DOMAIN sourceCodes }

(* C14: the notifications of a publish carry together as many diagnostics as    *)
(* the compiler has errors whose location names a stored document, each in the  *)
(* notification of the document its location names; an error without location   *)
(* or source name is in no notification.                                        *)
C14_DiagnosticsComplete ==
    Published
    => /\ TotalDiagnostics(sent) = Cardinality(LocatedErrors)
       /\ \A i \in 1..Len(sent) : \A j \in 1..Len(sent[i].diagnostics) :
             /\ sent[i].diagnostics[j] # NoSource
             /\ sourceUnitNameToClientPath(sent[i].diagnostics[j]) = sent[i].uri
       /\ \A n \in DOMAIN sourceCodes : \A i \in NotificationsFor(n) :
             Len(sent[i].diagnostics)
               = Cardinality({ k \in 1..Len(m_errors) : m_errors[k] = n })

C14_Witness ==
    /\ Published /\ pc = "loop"
    /\ DOMAIN sourceCodes = Names
    /\ m_errors = << NameOrder[1], NoSource, NameOrder[1] >>
    /\ Len(sent) = 2
    /\ sent[1].diagnostics = << NameOrder[1], NameOrder[1] >>
    /\ sent[2].diagnostics = <<>>


(* C15: once textDocument/didClose has been dispatched for a document, the      *)
(* document is no longer in the store, so it is not among the sources given to  *)
(* the compiler and no publishDiagnostics is sent for it.                       *)
C15_DidCloseRemoves ==
    DispatchedMethod("textDocument/didClose") => DocName \notin DOMAIN sourceCodes


\* a step of notify(), reply() or error()
CallStep == CallNotify \/ CallReply \/ CallError

\* a step of the transport's receive()
TcpReceiveStep ==
    TcpReceiveAcceptClosed \/ TcpReceiveMessage \/ TcpReceiveNothing \/ TcpReceiveDisconnect

(* C16: a notify, reply or error called while the transport has no good client  *)
(* connection (none accepted yet, or the last one at EOF or failed) writes      *)
(* nothing, accepts nothing and leaves the connection state alone; whatever is  *)
(* written is written by a call made on a good connection, from the messages of *)
(* that call, and every receive(), so every accept, starts from nothing written.*)
C16_NoConnectionNoWrite ==
    [][ /\ ( CallStep /\ m_stream # "good" )
           => /\ written' = written
              /\ m_stream' = m_stream /\ m_jsonTransport' = m_jsonTransport
              /\ accepted' = accepted
        /\ ( written' # written /\ written' # <<>> )
           => /\ m_stream = "good" /\ CallStep
              /\ Len(sent') = Len(sent) + 1
              /\ written' = Append(written, sent'[Len(sent')])
        /\ TcpReceiveStep => written' = <<>> ]_vars

C16_Witness ==
    /\ m_stream = "closed" /\ m_jsonTransport
    /\ Len(sent) = 2 /\ sent[2].kind = "notify"
    /\ written = <<>>

\* run() is back from a call of receive()
ReceiveReturns ==
    /\ pc = "loop" /\ pc' \in { "loop", "dispatch" }
    /\ m_acceptorOpen' = m_acceptorOpen

(* C17: run() returns only after `exit` or once the listening socket is closed, *)
(* whatever the state of the client connection; a receive() entered without a   *)
(* good connection accepts a new one; and an `initialize` of the client accepted*)
(* by that receive() is answered with its reply, which is written to the new    *)
(* connection unless that write fails.                                          *)
C17_DisconnectDoesNotStop ==
    [][ /\ ( pc = "loop" /\ pc' = "returned" ) => ( m_exitRequested \/ ~m_acceptorOpen )
        /\ ( pc = "loop" /\ ~m_exitRequested /\ m_acceptorOpen ) => pc' # "returned"
        /\ ( ReceiveReturns /\ m_stream # "good" ) => accepted'
        /\ ( pc = "dispatch" /\ accepted /\ jsonMessage.method = "initialize"
             /\ ~jsonMessage.params.bad )
           => /\ sent' = << ReplyMsg(jsonMessage.id, "initializeResult") >>
              /\ ( written' = sent' \/ ( written' = <<>> /\ m_stream' = "closed" ) )
              /\ pc' = "loop" ]_vars

C17_Witness ==
    /\ DispatchedMethod("initialize") /\ accepted /\ jsonMessage.id = 1
    /\ written = << ReplyMsg(1, "initializeResult") >>
    /\ m_stream = "good" /\ pc = "loop" /\ RunContinues
    /\ sourceCodes # EmptySources

(* C18: when receive() has returned no message and the client connection is     *)
(* closed, the stream and the framer are both reset.                            *)
C18_ClosedClientTornDown ==
    ( pc = "loop" /\ jsonMessage = NoMsg /\ sent = <<>> /\ m_stream # "good" )
    => ( m_stream = "none" /\ ~m_jsonTransport )

(* C19: receive() calls accept exactly when it is entered with no connection or *)
(* with a closed one, never with a good one; nothing else accepts; and the      *)
(* accepted connection is the one the transport holds afterwards, with a framer *)
(* of its own when it is good.                                                  *)
C19_AcceptOnlyWhenClosed ==
    [][ /\ TcpReceiveStep => ( accepted' <=> m_stream # "good" )
        /\ ~TcpReceiveStep => accepted' = accepted
        /\ ( TcpReceiveStep /\ m_stream = "good" ) => m_stream' \in { "good", "none" }
        /\ m_stream' = "good" => m_jsonTransport' ]_vars

C19_Witness ==
    /\ accepted /\ m_stream = "good" /\ m_jsonTransport
    /\ jsonMessage # NoMsg /\ Len(written) = 2

(* C20: the shutdown flag is false at the start, is set exactly by dispatching  *)
(* `shutdown`, and is never cleared; run() returns its value, whether the loop  *)
(* ended by `exit` or by the closing of the transport.                          *)
C20_RunResultIsShutdownFlag ==
    [][ /\ m_shutdownRequested => m_shutdownRequested'
        /\ ( ~m_shutdownRequested /\ m_shutdownRequested' )
           => ( pc = "dispatch" /\ jsonMessage.method = "shutdown" )
        /\ ( pc = "dispatch" /\ jsonMessage.method = "shutdown" ) => m_shutdownRequested'
        /\ ( pc = "loop" /\ pc' = "returned" ) => runResult' = m_shutdownRequested
        /\ pc = "returned" => runResult' = runResult ]_vars

C20_Witness ==
    /\ pc = "returned" /\ runResult /\ m_exitRequested /\ ~closed
    /\ jsonMessage.method = "exit"

====
